---- MODULE Spec2Model ----
(***************************************************************************)
(* Model of the BVH motion-capture pipeline:                               *)
(*   scripts/BVH/bvh_to_h5.py   process_bvh_lines  (the line parser)       *)
(*   data/processed/Skeleton.py Skeleton            (channel map, root      *)
(*                                                   reassignment)          *)
(*   scripts/BVH/bvh_to_h5.py   save_to_hdf5                               *)
(*   data/processed/read_h5.py  read_hdf5_file                             *)
(* ParserSpec runs the parser line by line over every bounded input.       *)
(* Spec builds a Skeleton from the parse of a document (channel map,       *)
(* forward kinematics) and calls set_new_root, compute_relative_positions  *)
(* and the accessors on it.  StoreSpec writes the parse of a document to   *)
(* a file and reads the file back.                                         *)
(***************************************************************************)
EXTENDS Integers, Sequences, FiniteSets, TLC

VARIABLES
    hierarchy,          \* process_bvh_lines: list of joint records
    motion_data,        \* process_bvh_lines: list of rows
    channels,           \* process_bvh_lines: list of channel names
    joint_stack,        \* process_bvh_lines: open-scope stack
    in_motion_section,  \* process_bvh_lines: phase flag
    order,              \* process_bvh_lines: joint names in declaration order
    line,               \* the line the loop handled last
    pc,                 \* "parsing" | "returned" | "failed" |
                        \* "constructed" | "construct_failed"
    error,              \* the exception that ended process_bvh_lines
    result,             \* the dict process_bvh_lines returned, or NoResult;
                        \* Skeleton.hierarchy is result.hierarchy itself
    motion,             \* Skeleton.motion (the constructor's copy)
    root_joint,         \* Skeleton.root_joint
    joint_channel_map,  \* Skeleton.joint_channel_map
    call,               \* the last call made on the Skeleton
    outcome,            \* how that call ended: "ok", or the exception
    world_motion,       \* Skeleton.world_motion: one flat vector per frame
    ret,                \* what that call returned (None when it raised)
    hdf5                \* the file save_to_hdf5 wrote, or NoFile

parserVars == <<hierarchy, motion_data, channels, joint_stack,
                in_motion_section, order, line, pc, error, result>>
skeletonVars == <<motion, root_joint, joint_channel_map, call, outcome,
                  world_motion, ret, hdf5>>
vars == <<parserVars, skeletonVars>>

(***************************************************************************)
(* Bounds of the parser's input.                                           *)
(***************************************************************************)
MaxJoints == 2
MaxChannels == 6
MaxFrames == 2

(***************************************************************************)
(* Values.  A joint name is a non-empty sequence of name tokens, so that   *)
(* the "_End" suffix the parser appends can be told from the rest of the   *)
(* name.  Python's None is the empty sequence.                             *)
(***************************************************************************)
None == <<>>
NoError == "none"
NoResult == [returned |-> FALSE]
NoCall == [op |-> "none"]
NoFile == [written |-> FALSE]

EndSiteName(top) == Append(top, "_End")

ChSix == <<"Xposition", "Yposition", "Zposition",
           "Yrotation", "Xrotation", "Zrotation">>
ChBvh == <<"Xposition", "Yposition", "Zposition",
           "Zrotation", "Xrotation", "Yrotation">>
ChPos == <<"Xposition", "Yposition", "Zposition">>

(***************************************************************************)
(* Input lines.  kind is the prefix the parser's startswith tests match;   *)
(* "" is the empty line, " " a line of white space only, "row" a line of   *)
(* numbers, "HIERARCHY" and "{" are lines no test matches.  A ROOT line    *)
(* whose name is None has no second token.  A "Frames:" line declares n    *)
(* frames.                                                                 *)
(***************************************************************************)
JointLines == {[kind |-> "ROOT", name |-> <<"A">>],
               [kind |-> "ROOT", name |-> None],
               [kind |-> "JOINT", name |-> <<"A">>],
               [kind |-> "JOINT", name |-> <<"B">>]}
EndSiteLines == {[kind |-> "End Site"]}
OffsetLines == [kind : {"OFFSET"}, vals : {<<0, 5, 0>>}]
ChannelLines == {[kind |-> "CHANNELS", n |-> 6, names |-> ChSix],
                 [kind |-> "CHANNELS", n |-> 3, names |-> ChBvh],
                 [kind |-> "CHANNELS", n |-> 3, names |-> ChPos]}
PlainLines == [kind : {"}", "{", "MOTION", "HIERARCHY", "", " ",
                       "Frame Time:"}]
FramesLines == {[kind |-> "Frames:", n |-> 1]}
RowLines == [kind : {"row"}, vals : {<<1>>, <<1, 2>>}]
Lines == JointLines \cup EndSiteLines \cup OffsetLines \cup ChannelLines
            \cup PlainLines \cup FramesLines \cup RowLines
EndOfInput == [kind |-> "EOF"]
NoLine == [kind |-> "BOF"]

(***************************************************************************)
(* process_bvh_lines, one line at a time, on the record p of its locals.   *)
(***************************************************************************)
Raise(p, e) == [p EXCEPT !.error = e]

Top(stack) == IF stack = <<>> THEN None ELSE stack[Len(stack)]

JointDeclParentLast(p, l) ==
    IF l.name = None
    THEN Raise(p, "IndexError")
    ELSE [p EXCEPT
            !.hierarchy = Append(@, [name |-> l.name,
                                     parent |-> IF p.hierarchy = <<>>
                                                THEN None
                                                ELSE p.hierarchy[Len(p.hierarchy)].name,
                                     offset |-> None]),
            !.order = Append(@, l.name),
            !.joint_stack = Append(@, l.name)]

JointDecl(p, l) ==
    IF l.name = None
    THEN Raise(p, "IndexError")
    ELSE [p EXCEPT
            !.hierarchy = Append(@, [name |-> l.name,
                                     parent |-> Top(p.joint_stack),
                                     offset |-> None]),
            !.order = Append(@, l.name),
            !.joint_stack = Append(@, l.name)]

\* Appends the record and leaves the stack as it is.
EndSiteUnpushed(p) ==
    IF p.joint_stack = <<>>
    THEN Raise(p, "IndexError")
    ELSE [p EXCEPT
            !.hierarchy = Append(@, [name |-> EndSiteName(Top(p.joint_stack)),
                                     parent |-> Top(p.joint_stack),
                                     offset |-> None])]

EndSite(p) ==
    IF p.joint_stack = <<>>
    THEN Raise(p, "IndexError")
    ELSE LET joint_name == EndSiteName(Top(p.joint_stack))
         IN [p EXCEPT
               !.hierarchy = Append(@, [name |-> joint_name,
                                        parent |-> Top(p.joint_stack),
                                        offset |-> None]),
               !.joint_stack = Append(@, joint_name)]

\* Sets the offset of the first record.
OffsetFirstRecord(p, l) ==
    IF p.hierarchy = <<>>
    THEN Raise(p, "IndexError")
    ELSE [p EXCEPT !.hierarchy[1].offset = l.vals]

Offset(p, l) ==
    IF p.hierarchy = <<>>
    THEN Raise(p, "IndexError")
    ELSE [p EXCEPT !.hierarchy[Len(p.hierarchy)].offset = l.vals]

ChannelsDeclaredCount(p, l) ==
    [p EXCEPT !.channels = @ \o SubSeq(l.names, 1, l.n)]

Channels(p, l) == [p EXCEPT !.channels = @ \o l.names]

CloseScopeStrict(p) ==
    IF p.joint_stack # <<>>
    THEN [p EXCEPT !.joint_stack = SubSeq(@, 1, Len(@) - 1)]
    ELSE Raise(p, "IndexError")

CloseScope(p) ==
    IF p.joint_stack # <<>>
    THEN [p EXCEPT !.joint_stack = SubSeq(@, 1, Len(@) - 1)]
    ELSE p

MotionMarker(p) == [p EXCEPT !.in_motion_section = TRUE]

\* Holds the Frames: line against the rows read so far.
MotionLineCounting(p, l) ==
    IF l.kind = "Frames:" /\ Len(p.motion_data) > l.n
    THEN Raise(p, "ValueError: more rows than frames")
    ELSE IF l.kind \in {"Frames:", "Frame Time:"}
    THEN p
    ELSE IF l.kind = "row"
         THEN [p EXCEPT !.motion_data = Append(@, l.vals)]
         ELSE IF l.kind = " "
         THEN [p EXCEPT !.motion_data = Append(@, <<>>)]
         ELSE Raise(p, "ValueError: could not convert string to float")

MotionLine(p, l) ==
    IF l.kind \in {"Frames:", "Frame Time:"}
    THEN p
    ELSE IF l.kind = "row"
         THEN [p EXCEPT !.motion_data = Append(@, l.vals)]
         ELSE IF l.kind = " "
         THEN [p EXCEPT !.motion_data = Append(@, <<>>)]
         ELSE Raise(p, "ValueError: could not convert string to float")

HierarchyLineStrict(p, l) ==
    CASE l.kind \in {"ROOT", "JOINT"} -> JointDecl(p, l)
      [] l.kind = "End Site" -> EndSite(p)
      [] l.kind = "OFFSET" -> Offset(p, l)
      [] l.kind = "CHANNELS" -> Channels(p, l)
      [] l.kind = "}" -> CloseScope(p)
      [] l.kind = "MOTION" -> MotionMarker(p)
      [] l.kind = "{" -> p
      [] OTHER -> Raise(p, "ValueError")

HierarchyLine(p, l) ==
    CASE l.kind \in {"ROOT", "JOINT"} -> JointDecl(p, l)
      [] l.kind = "End Site" -> EndSite(p)
      [] l.kind = "OFFSET" -> Offset(p, l)
      [] l.kind = "CHANNELS" -> Channels(p, l)
      [] l.kind = "}" -> CloseScope(p)
      [] l.kind = "MOTION" -> MotionMarker(p)
      [] OTHER -> p

ProcessLine(p, l) ==
    IF l.kind = ""
    THEN p
    ELSE IF ~p.in_motion_section
         THEN HierarchyLine(p, l)
         ELSE MotionLine(p, l)

FrameLengths(rows) == {Len(rows[i]) : i \in 1..Len(rows)}

CheckFrameLengthsOff(p) == p

CheckFrameLengthsEmptyOnly(p) ==
    IF \E i \in 1..Len(p.motion_data) : p.motion_data[i] = <<>>
    THEN Raise(p, "ValueError: Inconsistent frame lengths")
    ELSE p

CheckFrameLengths(p) ==
    IF Cardinality(FrameLengths(p.motion_data)) > 1
    THEN Raise(p, "ValueError: Inconsistent frame lengths")
    ELSE p

ParseResult(p) ==
    [returned |-> TRUE, hierarchy |-> p.hierarchy, motion |-> p.motion_data,
     channels |-> p.channels, order |-> p.order]

Locals0 ==
    [hierarchy |-> <<>>, motion_data |-> <<>>, channels |-> <<>>,
     joint_stack |-> <<>>, in_motion_section |-> FALSE, order |-> <<>>,
     error |-> NoError]

Locals ==
    [hierarchy |-> hierarchy, motion_data |-> motion_data,
     channels |-> channels, joint_stack |-> joint_stack,
     in_motion_section |-> in_motion_section, order |-> order,
     error |-> error]

SetLocals(q) ==
    /\ hierarchy' = q.hierarchy
    /\ motion_data' = q.motion_data
    /\ channels' = q.channels
    /\ joint_stack' = q.joint_stack
    /\ in_motion_section' = q.in_motion_section
    /\ order' = q.order
    /\ error' = q.error

(***************************************************************************)
(* The inputs explored: at most MaxJoints joint records, MaxChannels       *)
(* channel names and MaxFrames rows.                                       *)
(***************************************************************************)
InBounds(l) ==
    /\ (~in_motion_section /\ l.kind \in {"ROOT", "JOINT", "End Site"})
          => Len(hierarchy) < MaxJoints
    /\ (~in_motion_section /\ l.kind = "CHANNELS")
          => Len(channels) + Len(l.names) <= MaxChannels
    /\ (in_motion_section /\ l.kind \in {"row", " "})
          => Len(motion_data) < MaxFrames

ParserInit ==
    /\ hierarchy = <<>>
    /\ motion_data = <<>>
    /\ channels = <<>>
    /\ joint_stack = <<>>
    /\ in_motion_section = FALSE
    /\ order = <<>>
    /\ line = NoLine
    /\ pc = "parsing"
    /\ error = NoError
    /\ result = NoResult
    /\ motion = <<>>
    /\ root_joint = None
    /\ joint_channel_map = <<>>
    /\ call = NoCall
    /\ outcome = "none"
    /\ world_motion = <<>>
    /\ ret = None
    /\ hdf5 = NoFile

ReadLine ==
    /\ pc = "parsing"
    /\ \E l \in Lines :
         /\ InBounds(l)
         /\ LET q == ProcessLine(Locals, l)
            IN /\ SetLocals(q)
               /\ pc' = IF q.error = NoError THEN "parsing" ELSE "failed"
               /\ line' = l
    /\ UNCHANGED <<result, skeletonVars>>

Return ==
    /\ pc = "parsing"
    /\ LET q == CheckFrameLengths(Locals)
       IN /\ SetLocals(q)
          /\ pc' = IF q.error = NoError THEN "returned" ELSE "failed"
          /\ result' = IF q.error = NoError THEN ParseResult(q) ELSE NoResult
    /\ line' = EndOfInput
    /\ UNCHANGED skeletonVars

ParserNext == ReadLine \/ Return

ParserSpec == ParserInit /\ [][ParserNext]_vars

(***************************************************************************)
(* The documents a Skeleton is built from: a hierarchy section followed by *)
(* a motion section of at most MaxFrames rows.                             *)
(***************************************************************************)
A == <<"A">>
B == <<"B">>
C == <<"C">>

Root(nm) == [kind |-> "ROOT", name |-> nm]
Joint(nm) == [kind |-> "JOINT", name |-> nm]
OffsetLine(v) == [kind |-> "OFFSET", vals |-> v]
ChannelsLine(n, names) == [kind |-> "CHANNELS", n |-> n, names |-> names]
Plain(k) == [kind |-> k]
RowLine(v) == [kind |-> "row", vals |-> v]
FramesLine(n) == [kind |-> "Frames:", n |-> n]

JointBlock(decl, off, chs, inner) ==
    <<decl, Plain("{")>> \o off \o chs \o inner \o <<Plain("}")>>

EndBlock(v) ==
    <<Plain("End Site"), Plain("{"), OffsetLine(v), Plain("}")>>

Ch6 == <<ChannelsLine(6, ChSix)>>
Off(v) == <<OffsetLine(v)>>

\* A - B - B_End, the shape of the repository's sample.
HierChain ==
    JointBlock(Root(A), Off(<<0, 0, 0>>), Ch6,
        JointBlock(Joint(B), Off(<<0, 10, 0>>), Ch6, EndBlock(<<0, 5, 0>>)))

\* A - B - C - C_End.
HierChain3 ==
    JointBlock(Root(A), Off(<<0, 0, 0>>), Ch6,
        JointBlock(Joint(B), Off(<<0, 10, 0>>), Ch6,
            JointBlock(Joint(C), Off(<<3, 0, 0>>), Ch6,
                       EndBlock(<<0, 5, 0>>))))

\* A with the children B (and B_End) and C.
HierFork ==
    JointBlock(Root(A), Off(<<0, 0, 0>>), Ch6,
        JointBlock(Joint(B), Off(<<0, 10, 0>>), Ch6, EndBlock(<<0, 5, 0>>))
        \o JointBlock(Joint(C), Off(<<3, 0, 0>>), Ch6, <<>>))

\* The sample of test_bvh_to_h5.py: rotations declared Z, X, Y and a
\* CHANNELS 3 line that carries six names.
HierSample ==
    <<Plain("HIERARCHY")>> \o
    JointBlock(Root(A), Off(<<0, 0, 0>>), <<ChannelsLine(6, ChBvh)>>,
        JointBlock(Joint(B), Off(<<0, 10, 0>>), <<ChannelsLine(3, ChBvh)>>,
                   EndBlock(<<0, 5, 0>>)))

\* B declares its positions only.
HierPositionsOnly ==
    JointBlock(Root(A), Off(<<0, 0, 0>>), Ch6,
        JointBlock(Joint(B), Off(<<0, 10, 0>>), <<ChannelsLine(3, ChPos)>>,
                   <<>>))

\* The name A is declared twice.
HierDuplicate ==
    JointBlock(Root(A), Off(<<0, 0, 0>>), Ch6,
        JointBlock(Joint(B), Off(<<0, 10, 0>>), Ch6,
            JointBlock(Joint(A), Off(<<3, 0, 0>>), Ch6, <<>>)))

\* The name B is declared twice, by two children of A.
HierTwins ==
    JointBlock(Root(A), Off(<<0, 0, 0>>), Ch6,
        JointBlock(Joint(B), Off(<<0, 10, 0>>), Ch6, <<>>)
        \o JointBlock(Joint(B), Off(<<3, 0, 0>>), Ch6, <<>>))

\* The root has an offset of its own.
HierRootOffset ==
    JointBlock(Root(A), Off(<<4, 0, 6>>), Ch6,
        JointBlock(Joint(B), Off(<<0, 10, 0>>), Ch6, EndBlock(<<0, 5, 0>>)))

\* A declared joint whose name has "_End" in the middle ("B_EndX").
HierEndInside ==
    JointBlock(Root(A), Off(<<0, 0, 0>>), Ch6,
        JointBlock(Joint(<<"B", "_End", "X">>), Off(<<0, 10, 0>>), Ch6, <<>>)
        \o JointBlock(Joint(C), Off(<<3, 0, 0>>), Ch6, <<>>))

\* A root whose declared name is "A_End".
HierEndRoot ==
    JointBlock(Root(EndSiteName(A)), Off(<<0, 0, 0>>), Ch6,
        JointBlock(Joint(B), Off(<<0, 10, 0>>), Ch6, <<>>))

\* The root has no OFFSET line.
HierNoOffset ==
    JointBlock(Root(A), <<>>, Ch6,
        JointBlock(Joint(B), Off(<<0, 10, 0>>), Ch6, <<>>))

\* A joint declared inside an End Site scope.
HierJointInEndSite ==
    JointBlock(Root(A), Off(<<0, 0, 0>>), Ch6,
        <<Plain("End Site"), Plain("{"), OffsetLine(<<0, 5, 0>>)>>
        \o JointBlock(Joint(B), Off(<<0, 10, 0>>), Ch6, <<>>)
        \o <<Plain("}")>>)

\* No joint at all.
HierEmpty == <<Plain("HIERARCHY")>>

Templates ==
    {[lines |-> HierChain, widths |-> {6, 12, 13}],
     [lines |-> HierChain3, widths |-> {18}],
     [lines |-> HierFork, widths |-> {18}],
     [lines |-> HierSample, widths |-> {6, 12}],
     [lines |-> HierPositionsOnly, widths |-> {9}],
     [lines |-> HierDuplicate, widths |-> {18}],
     [lines |-> HierTwins, widths |-> {18}],
     [lines |-> HierRootOffset, widths |-> {12}],
     [lines |-> HierEndInside, widths |-> {18}],
     [lines |-> HierEndRoot, widths |-> {12}],
     [lines |-> HierNoOffset, widths |-> {12}],
     [lines |-> HierJointInEndSite, widths |-> {12}],
     [lines |-> HierEmpty, widths |-> {6}]}

\* Rows: position columns hold small integers, rotation columns multiples
\* of 90 degrees.
RowA(w) == [i \in 1..w |-> IF (i - 1) % 6 < 3 THEN i ELSE 0]
RowB(w) == [i \in 1..w |-> IF (i - 1) % 6 < 3 THEN 2 * i + 3
                           ELSE 90 * ((i \div 6) % 4)]

Motions(w) == UNION {[1..n -> {RowA(w), RowB(w)}] : n \in 0..MaxFrames}

MotionSection(rows) ==
    <<Plain("MOTION"), FramesLine(Len(rows)), Plain("Frame Time:")>>
    \o [i \in 1..Len(rows) |-> RowLine(rows[i])]
    \o <<Plain("")>>

Documents ==
    UNION {UNION {{t.lines \o MotionSection(rows) : rows \in Motions(w)} :
                  w \in t.widths} : t \in Templates}

RECURSIVE ParseLines(_, _, _)
ParseLines(p, lines, i) ==
    IF i > Len(lines) \/ p.error # NoError
    THEN p
    ELSE ParseLines(ProcessLine(p, lines[i]), lines, i + 1)

\* process_bvh_lines(lines)
ProcessBvhLines(lines) ==
    LET p == ParseLines(Locals0, lines, 1)
    IN IF p.error # NoError THEN p ELSE CheckFrameLengths(p)

(***************************************************************************)
(* Skeleton                                                                *)
(***************************************************************************)
\* "_End" in joint_name
HasEnd(nm) == \E i \in 1..Len(nm) : nm[i] = "_End"

Kinds == <<"Xposition", "Yposition", "Zposition",
           "Yrotation", "Xrotation", "Zrotation">>
Axes == <<"Xposition", "Yposition", "Zposition">>

\* The inner loop of _build_joint_channel_map: one joint's kinds, tried in
\* the order of Kinds against the channel at the cursor.  Columns count
\* from 0, as in the source.
RECURSIVE MatchKinds(_, _, _, _)
MatchKinds(chs, k, current_index, m) ==
    IF k > Len(Kinds)
    THEN [map |-> m, current_index |-> current_index]
    ELSE IF current_index < Len(chs) /\ chs[current_index + 1] = Kinds[k]
         THEN MatchKinds(chs, k + 1, current_index + 1,
                         (Kinds[k] :> current_index) @@ m)
         ELSE MatchKinds(chs, k + 1, current_index, m)

RECURSIVE BuildFrom(_, _, _, _, _)
BuildFrom(ord, chs, i, current_index, jcm) ==
    IF i > Len(ord)
    THEN jcm
    ELSE IF HasEnd(ord[i])
         THEN BuildFrom(ord, chs, i + 1, current_index, jcm)
         ELSE LET r == MatchKinds(chs, 1, current_index, <<>>)
              IN BuildFrom(ord, chs, i + 1, r.current_index,
                           (ord[i] :> r.map) @@ jcm)

BuildJointChannelMap(ord, chs) == BuildFrom(ord, chs, 1, 0, <<>>)

\* The keys of joint_channel_map in insertion order.
RECURSIVE KeysFrom(_, _, _)
KeysFrom(ord, i, keys) ==
    IF i > Len(ord)
    THEN keys
    ELSE IF HasEnd(ord[i]) \/ \E k \in 1..Len(keys) : keys[k] = ord[i]
         THEN KeysFrom(ord, i + 1, keys)
         ELSE KeysFrom(ord, i + 1, Append(keys, ord[i]))

MapKeys(ord) == KeysFrom(ord, 1, <<>>)

\* joint_map = {joint['name']: joint ...}: the last record of that name
\* (0: no such key).
JointMapIndex(h, nm) ==
    IF \E i \in 1..Len(h) : h[i].name = nm
    THEN CHOOSE i \in 1..Len(h) :
            /\ h[i].name = nm
            /\ \A j \in (i + 1)..Len(h) : h[j].name # nm
    ELSE 0

FirstError(errs) ==
    IF \E i \in 1..Len(errs) : errs[i] # NoError
    THEN errs[CHOOSE i \in 1..Len(errs) :
                /\ errs[i] # NoError
                /\ \A j \in 1..(i - 1) : errs[j] = NoError]
    ELSE NoError

\* _update_hierarchy_with_motion: the exception it ends with, if any.
UpdateHierarchyError(h, jcm, m) ==
    LET JointError(nm) ==
            IF HasEnd(nm) THEN NoError
            ELSE IF nm \notin DOMAIN jcm THEN "KeyError"
            ELSE IF \E k \in 1..Len(Kinds) : Kinds[k] \notin DOMAIN jcm[nm]
                 THEN "KeyError"
            ELSE IF \E k \in 1..Len(Kinds) : jcm[nm][Kinds[k]] >= Len(m[1])
                 THEN "IndexError"
            ELSE NoError
    IN IF Len(m) = 0 THEN NoError
       ELSE FirstError([i \in 1..Len(h) |-> JointError(h[i].name)])

\* compute_world_position: the exception the walk up the parent links from
\* joint nm ends with, if any.
RECURSIVE ChainError(_, _, _)
ChainError(h, nm, fuel) ==
    IF JointMapIndex(h, nm) = 0 THEN "KeyError"
    ELSE IF HasEnd(nm) THEN "IndexError"
    ELSE LET parent_name == h[JointMapIndex(h, nm)].parent
         IN IF parent_name = None THEN NoError
            ELSE IF fuel = 0 THEN "RecursionError"
            ELSE ChainError(h, parent_name, fuel - 1)

\* compute_world_skeleton_for_frames: the exception it ends with, if any.
WorldSkeletonError(h, root, ord, m) ==
    LET RecordError(i) ==
            IF HasEnd(h[i].name) THEN NoError
            ELSE IF ChainError(h, h[i].name, Len(h)) # NoError
                 THEN ChainError(h, h[i].name, Len(h))
            ELSE IF h[i].offset = None THEN "TypeError"
            ELSE IF h[i].name # root /\ Len(h[i].offset) # 3
                 THEN "ValueError"
            ELSE NoError
        OrderError(i) == IF HasEnd(ord[i]) THEN "KeyError" ELSE NoError
    IN IF Len(m) = 0 THEN NoError
       ELSE FirstError([i \in 1..Len(h) |-> RecordError(i)]
                       \o [i \in 1..Len(ord) |-> OrderError(i)])

\* Skeleton.__init__: the exception it ends with, if any.
ConstructError(r) ==
    IF r.hierarchy = <<>> THEN "IndexError"
    ELSE LET jcm == BuildJointChannelMap(r.order, r.channels)
             e == UpdateHierarchyError(r.hierarchy, jcm, r.motion)
         IN IF e # NoError THEN e
            ELSE WorldSkeletonError(r.hierarchy, r.hierarchy[1].name,
                                    r.order, r.motion)

(***************************************************************************)
(* Forward kinematics.  Angles are multiples of 90 degrees, so that the    *)
(* sines and cosines are integers; positions and offsets are integers.     *)
(***************************************************************************)
\* np.cos(np.radians(deg))
Cos(deg) ==
    CASE deg % 360 = 0 -> 1
      [] deg % 360 = 90 -> 0
      [] deg % 360 = 180 -> -1
      [] deg % 360 = 270 -> 0

\* np.sin(np.radians(deg))
Sin(deg) ==
    CASE deg % 360 = 0 -> 0
      [] deg % 360 = 90 -> 1
      [] deg % 360 = 180 -> 0
      [] deg % 360 = 270 -> -1

\* M @ N for 3x3 matrices
MatMul3(M, N) ==
    [i \in 1..3 |-> [j \in 1..3 |->
        M[i][1] * N[1][j] + M[i][2] * N[2][j] + M[i][3] * N[3][j]]]

\* M @ N for 4x4 matrices
MatMul4(M, N) ==
    [i \in 1..4 |-> [j \in 1..4 |->
        M[i][1] * N[1][j] + M[i][2] * N[2][j] + M[i][3] * N[3][j]
            + M[i][4] * N[4][j]]]

\* M @ v for a 4x4 matrix and a homogeneous vector
MatVec4(M, v) ==
    [i \in 1..4 |->
        M[i][1] * v[1] + M[i][2] * v[2] + M[i][3] * v[3] + M[i][4] * v[4]]

rotation_matrix_yxz(theta_y, theta_x, theta_z) ==
    LET R_y == <<<<Cos(theta_y), 0, Sin(theta_y)>>,
                 <<0, 1, 0>>,
                 <<0 - Sin(theta_y), 0, Cos(theta_y)>>>>
        R_x == <<<<1, 0, 0>>,
                 <<0, Cos(theta_x), 0 - Sin(theta_x)>>,
                 <<0, Sin(theta_x), Cos(theta_x)>>>>
        R_z == <<<<Cos(theta_z), 0 - Sin(theta_z), 0>>,
                 <<Sin(theta_z), Cos(theta_z), 0>>,
                 <<0, 0, 1>>>>
    IN MatMul3(MatMul3(R_y, R_x), R_z)

transformation_matrix_yxz(theta_y, theta_x, theta_z, translation) ==
    LET R == rotation_matrix_yxz(theta_y, theta_x, theta_z)
    IN [i \in 1..4 |-> [j \in 1..4 |->
          IF i <= 3 /\ j <= 3 THEN R[i][j]
          ELSE IF i <= 3 THEN translation[i]
          ELSE IF j = 4 THEN 1 ELSE 0]]

\* joint['world_motion'][key][frame], as _update_hierarchy_with_motion
\* filled it from the motion table (frames from 1).
JointWorldMotion(jcm, m, nm, kind, frame) == m[frame][jcm[nm][kind] + 1]

\* The local transform of joint nm in a frame.
LocalTransform(jcm, m, nm, frame) ==
    transformation_matrix_yxz(
        JointWorldMotion(jcm, m, nm, "Yrotation", frame),
        JointWorldMotion(jcm, m, nm, "Xrotation", frame),
        JointWorldMotion(jcm, m, nm, "Zrotation", frame),
        <<JointWorldMotion(jcm, m, nm, "Xposition", frame),
          JointWorldMotion(jcm, m, nm, "Yposition", frame),
          JointWorldMotion(jcm, m, nm, "Zposition", frame)>>)

\* compute_world_position(joint_name, joint_map, frame): the transforms of
\* the chain from the root down to joint_name, multiplied parent on the left.
RECURSIVE compute_world_position(_, _, _, _, _)
compute_world_position(h, jcm, m, joint_name, frame) ==
    LET joint == h[JointMapIndex(h, joint_name)]
        local_transform == LocalTransform(jcm, m, joint_name, frame)
    IN IF joint.parent = None
       THEN local_transform
       ELSE MatMul4(compute_world_position(h, jcm, m, joint.parent, frame),
                    local_transform)

\* Only the call for the joint itself evaluates a local transform.
joint_names_once(h, joint_name) == <<joint_name>>

\* joint_names once compute_world_position(joint_name, ...) has returned:
\* every call appends the name of the joint whose local transform it
\* evaluates, then calls itself for the parent.
RECURSIVE joint_names(_, _)
joint_names(h, joint_name) ==
    LET joint == h[JointMapIndex(h, joint_name)]
    IN IF joint.parent = None
       THEN <<joint_name>>
       ELSE <<joint_name>> \o joint_names(h, joint.parent)

\* The local transforms evaluated in one frame, from the i-th record on:
\* those of the call made for every record without "_End" in its name.
RECURSIVE FrameEvaluations(_, _)
FrameEvaluations(h, i) ==
    IF i > Len(h) THEN <<>>
    ELSE (IF HasEnd(h[i].name) THEN <<>> ELSE joint_names(h, h[i].name))
         \o FrameEvaluations(h, i + 1)

\* Every joint's transform is applied to its own offset.
PointOfAnyJoint(joint, root) == joint.offset \o <<1>>

\* The point the world transform of a record is applied to: the origin for
\* the root, the record's own offset for every other joint.
PointOf(joint, root) ==
    IF joint.name = root THEN <<0, 0, 0, 1>> ELSE joint.offset \o <<1>>

\* positions[nm] of one frame: the entry the last record named nm left.
WorldPosition(h, jcm, m, root, nm, frame) ==
    LET joint == h[JointMapIndex(h, nm)]
        new_world_transform == compute_world_position(h, jcm, m, nm, frame)
    IN SubSeq(MatVec4(new_world_transform, PointOf(joint, root)), 1, 3)

\* The positions appended from the last name of self.order to the first.
PositionListReversed(h, jcm, m, root, ord, frame) ==
    [i \in 1..(3 * Len(ord)) |->
        WorldPosition(h, jcm, m, root, ord[Len(ord) - ((i - 1) \div 3)],
                      frame)[((i - 1) % 3) + 1]]

\* position_list of one frame: the positions appended in the order of
\* self.order.
PositionList(h, jcm, m, root, ord, frame) ==
    [i \in 1..(3 * Len(ord)) |->
        WorldPosition(h, jcm, m, root, ord[((i - 1) \div 3) + 1],
                      frame)[((i - 1) % 3) + 1]]

\* compute_world_skeleton_for_frames(): position_lists.
ComputeWorldSkeletonForFrames(h, jcm, m, root, ord) ==
    [frame \in 1..Len(m) |-> PositionList(h, jcm, m, root, ord, frame)]

(***************************************************************************)
(* set_new_root                                                            *)
(***************************************************************************)
AlreadyRootNever(new_root, root) == FALSE

AlreadyRoot(new_root, root) == new_root = root

FindJointFirst(h, new_root) == 1

\* Step 1: the index of the first record named new_root (0: None).
FindJoint(h, new_root) ==
    IF \E i \in 1..Len(h) : h[i].name = new_root
    THEN CHOOSE i \in 1..Len(h) :
            /\ h[i].name = new_root
            /\ \A j \in 1..(i - 1) : h[j].name # new_root
    ELSE 0

\* Step 2, one frame: subtract new_root_position from the position columns
\* of every joint of the channel map, in the order of its keys.
RECURSIVE SubtractFrom(_, _, _, _, _)
SubtractFrom(row, jcm, keys, pos, k) ==
    IF k > 3 * Len(keys)
    THEN [row |-> row, error |-> NoError]
    ELSE LET chans == jcm[keys[((k - 1) \div 3) + 1]]
             i == ((k - 1) % 3) + 1
         IN IF Axes[i] \notin DOMAIN chans
            THEN [row |-> row, error |-> "KeyError"]
            ELSE SubtractFrom([row EXCEPT ![chans[Axes[i]] + 1] = @ - pos[i]],
                              jcm, keys, pos, k + 1)

\* Reads the new root's position again for every joint.
RECURSIVE SubtractLive(_, _, _, _, _)
SubtractLive(row, jcm, keys, new_root, k) ==
    IF k > 3 * Len(keys)
    THEN [row |-> row, error |-> NoError]
    ELSE LET chans == jcm[keys[((k - 1) \div 3) + 1]]
             i == ((k - 1) % 3) + 1
         IN SubtractLive([row EXCEPT ![chans[Axes[i]] + 1] =
                                  @ - row[jcm[new_root][Axes[i]] + 1]],
                         jcm, keys, new_root, k + 1)

ShiftFrameLive(row, jcm, keys, new_root) ==
    SubtractLive(row, jcm, keys, new_root, 1)

ShiftFrame(row, jcm, keys, new_root) ==
    LET new_root_channels == jcm[new_root]
    IN IF \E i \in 1..3 : Axes[i] \notin DOMAIN new_root_channels
       THEN [row |-> row, error |-> "KeyError"]
       ELSE SubtractFrom(row, jcm, keys,
                [i \in 1..3 |-> row[new_root_channels[Axes[i]] + 1]], 1)

RECURSIVE ShiftFrames(_, _, _, _, _)
ShiftFrames(m, jcm, keys, new_root, frame) ==
    IF frame > Len(m)
    THEN [motion |-> m, error |-> NoError]
    ELSE LET r == ShiftFrame(m[frame], jcm, keys, new_root)
             m2 == [m EXCEPT ![frame] = r.row]
         IN IF r.error # NoError
            THEN [motion |-> m2, error |-> r.error]
            ELSE ShiftFrames(m2, jcm, keys, new_root, frame + 1)

ReparentOldRootOnly(h, old_root_name, new_root) ==
    [i \in 1..Len(h) |->
        IF h[i].name = old_root_name
        THEN [h[i] EXCEPT !.parent = new_root]
        ELSE h[i]]

ReparentNewRootOnly(h, old_root_name, new_root) ==
    [i \in 1..Len(h) |->
        IF h[i].name = new_root
        THEN [h[i] EXCEPT !.parent = None]
        ELSE h[i]]

\* Step 3: the parent links.
Reparent(h, old_root_name, new_root) ==
    [i \in 1..Len(h) |->
        IF h[i].name = old_root_name
        THEN [h[i] EXCEPT !.parent = new_root]
        ELSE IF h[i].name = new_root
             THEN [h[i] EXCEPT !.parent = None]
             ELSE h[i]]

SharesMotionBufferYes == TRUE

\* hdf5_data["motion"].copy(): self.motion is an array of its own, not the
\* array of the caller's dict.
SharesMotionBuffer == FALSE

\* The caller's dict once the Skeleton holds the hierarchy h and the motion
\* table m: self.hierarchy is the caller's list itself, self.motion is not
\* the caller's array.
CallerSees(res, h, m) ==
    [res EXCEPT !.hierarchy = h,
                !.motion = IF SharesMotionBuffer THEN m ELSE @]

\* The joints a caller names: declared joints, end sites, an unknown name.
CallNames == {A, B, C, EndSiteName(A), EndSiteName(B), <<"Z">>}

\* The state in which process_bvh_lines has been run on a document of docs.
ParsedFrom(docs) ==
    \E d \in docs :
        LET q == ProcessBvhLines(d)
        IN /\ hierarchy = q.hierarchy
           /\ motion_data = q.motion_data
           /\ channels = q.channels
           /\ joint_stack = q.joint_stack
           /\ in_motion_section = q.in_motion_section
           /\ order = q.order
           /\ error = q.error
           /\ line = EndOfInput
           /\ pc = IF q.error = NoError THEN "returned" ELSE "failed"
           /\ result = IF q.error = NoError THEN ParseResult(q) ELSE NoResult
           /\ motion = <<>>
           /\ root_joint = None
           /\ joint_channel_map = <<>>
           /\ call = NoCall
           /\ outcome = "none"
           /\ world_motion = <<>>
           /\ ret = None
           /\ hdf5 = NoFile

SkeletonInit == ParsedFrom(Documents)

\* Skeleton(result)
Construct ==
    /\ pc = "returned"
    /\ call' = [op |-> "Skeleton"]
    /\ LET e == ConstructError(result)
       IN IF e # NoError
          THEN /\ pc' = "construct_failed"
               /\ outcome' = e
               /\ UNCHANGED <<motion, root_joint, joint_channel_map,
                              world_motion>>
          ELSE /\ pc' = "constructed"
               /\ outcome' = "ok"
               /\ motion' = result.motion
               /\ root_joint' = result.hierarchy[1].name
               /\ joint_channel_map' =
                      BuildJointChannelMap(result.order, result.channels)
               /\ world_motion' =
                      ComputeWorldSkeletonForFrames(
                          result.hierarchy,
                          BuildJointChannelMap(result.order, result.channels),
                          result.motion, result.hierarchy[1].name,
                          result.order)
    /\ ret' = None
    /\ UNCHANGED <<hierarchy, motion_data, channels, joint_stack,
                   in_motion_section, order, line, error, result, hdf5>>

\* skeleton.set_new_root(new_root)
SetNewRoot ==
    /\ pc = "constructed"
    /\ \E new_root \in CallNames :
         /\ call' = [op |-> "set_new_root", new_root |-> new_root]
         /\ IF AlreadyRoot(new_root, root_joint)
            THEN /\ outcome' = "already the root joint"
                 /\ UNCHANGED <<motion, root_joint, result>>
            ELSE IF FindJoint(result.hierarchy, new_root) = 0
            THEN /\ outcome' = "ValueError"
                 /\ UNCHANGED <<motion, root_joint, result>>
            ELSE IF root_joint \notin DOMAIN joint_channel_map
                    \/ new_root \notin DOMAIN joint_channel_map
            THEN /\ outcome' = "KeyError"
                 /\ UNCHANGED <<motion, root_joint, result>>
            ELSE LET r == ShiftFrames(motion, joint_channel_map,
                                      MapKeys(result.order), new_root, 1)
                 IN IF r.error # NoError
                    THEN /\ outcome' = r.error
                         /\ motion' = r.motion
                         /\ result' = CallerSees(result, result.hierarchy,
                                                 r.motion)
                         /\ UNCHANGED root_joint
                    ELSE /\ outcome' = "ok"
                         /\ motion' = r.motion
                         /\ root_joint' = new_root
                         /\ result' = CallerSees(result,
                                Reparent(result.hierarchy, root_joint,
                                         new_root),
                                r.motion)
    /\ ret' = None
    /\ UNCHANGED <<hierarchy, motion_data, channels, joint_stack,
                   in_motion_section, order, line, pc, error,
                   joint_channel_map, world_motion, hdf5>>

(***************************************************************************)
(* The accessors and compute_relative_positions, as functions of the       *)
(* Skeleton object: each gives the object after the call, how the call     *)
(* ended and what it returned.                                             *)
(***************************************************************************)
Self ==
    [hierarchy |-> result.hierarchy, motion |-> motion,
     joint_channel_map |-> joint_channel_map, root_joint |-> root_joint,
     world_motion |-> world_motion]

SetSelf(q) ==
    /\ result' = CallerSees(result, q.hierarchy, q.motion)
    /\ motion' = q.motion
    /\ joint_channel_map' = q.joint_channel_map
    /\ root_joint' = q.root_joint
    /\ world_motion' = q.world_motion

Returns(self, value) == [self |-> self, outcome |-> "ok", ret |-> value]
Raises(self, e) == [self |-> self, outcome |-> e, ret |-> None]

\* channels.get(kind, -1)
ChannelsGet(chans, kind) == IF kind \in DOMAIN chans THEN chans[kind] ELSE -1

\* row[c] for a numpy row: c = -1 is the last column.
InRow(row, c) == IF c = -1 THEN Len(row) >= 1 ELSE c < Len(row)
RowAt(row, c) == IF c = -1 THEN row[Len(row)] ELSE row[c + 1]

\* The frame numbers a caller passes.
Frames == (0 - 1)..MaxFrames

get_joint_position_raising(self, joint_name, frame) ==
    IF joint_name \notin DOMAIN self.joint_channel_map
    THEN Raises(self, "KeyError")
    ELSE IF frame < 0 \/ frame >= Len(self.world_motion)
    THEN Raises(self, "IndexError")
    ELSE Raises(self, "TypeError")

get_joint_position(self, joint_name, frame) ==
    IF joint_name \notin DOMAIN self.joint_channel_map
    THEN Returns(self, None)
    ELSE IF frame < 0 \/ frame >= Len(self.world_motion)
    THEN Returns(self, None)
    ELSE Raises(self, "TypeError")

\* Hands the rotation out and clears it in the motion table.
get_joint_rotation_clearing(self, joint_name, frame) ==
    IF joint_name \notin DOMAIN self.joint_channel_map
    THEN Returns(self, None)
    ELSE IF frame < 0 \/ frame >= Len(self.motion)
    THEN Returns(self, None)
    ELSE LET chans == self.joint_channel_map[joint_name]
             row == self.motion[frame + 1]
             cols == {chans[k] + 1 : k \in DOMAIN chans \cap
                                       {"Xrotation", "Yrotation", "Zrotation"}}
         IN Returns([self EXCEPT !.motion[frame + 1] =
                        [c \in 1..Len(row) |->
                            IF c \in cols THEN 0 ELSE row[c]]],
                    [i \in 1..3 |-> 0])

get_joint_rotation(self, joint_name, frame) ==
    IF joint_name \notin DOMAIN self.joint_channel_map
    THEN Returns(self, None)
    ELSE IF frame < 0 \/ frame >= Len(self.motion)
    THEN Returns(self, None)
    ELSE LET chans == self.joint_channel_map[joint_name]
             row == self.motion[frame + 1]
             cols == <<ChannelsGet(chans, "Xrotation"),
                       ChannelsGet(chans, "Yrotation"),
                       ChannelsGet(chans, "Zrotation")>>
         IN IF \E i \in 1..3 : ~InRow(row, cols[i])
            THEN Raises(self, "IndexError")
            ELSE Returns(self, [i \in 1..3 |-> RowAt(row, cols[i])])

get_joint_world_position(self, joint_name, frame) ==
    IF joint_name \notin DOMAIN self.joint_channel_map
    THEN Returns(self, None)
    ELSE IF frame < 0 \/ frame >= Len(self.motion)
    THEN Returns(self, None)
    ELSE IF FindJoint(self.hierarchy, joint_name) = 0
    THEN Raises(self, "StopIteration")
    ELSE Raises(self, "AttributeError")

get_joint_channel_map(self) == Returns(self, self.joint_channel_map)

compute_relative_positions(self) ==
    IF Len(self.motion) = 0
    THEN Returns(self, None)
    ELSE Raises(self, "AttributeError")

\* What every call leaves alone.
Untouched ==
    UNCHANGED <<hierarchy, motion_data, channels, joint_stack,
                in_motion_section, order, line, pc, error, hdf5>>

After(r) ==
    /\ SetSelf(r.self)
    /\ outcome' = r.outcome
    /\ ret' = r.ret
    /\ Untouched

\* skeleton.get_joint_position(joint_name, frame)
GetJointPosition ==
    /\ pc = "constructed"
    /\ \E joint_name \in CallNames, frame \in Frames :
         /\ call' = [op |-> "get_joint_position",
                     joint_name |-> joint_name, frame |-> frame]
         /\ After(get_joint_position(Self, joint_name, frame))

\* skeleton.get_joint_rotation(joint_name, frame)
GetJointRotation ==
    /\ pc = "constructed"
    /\ \E joint_name \in CallNames, frame \in Frames :
         /\ call' = [op |-> "get_joint_rotation",
                     joint_name |-> joint_name, frame |-> frame]
         /\ After(get_joint_rotation(Self, joint_name, frame))

\* skeleton.get_joint_world_position(joint_name, frame)
GetJointWorldPosition ==
    /\ pc = "constructed"
    /\ \E joint_name \in CallNames, frame \in Frames :
         /\ call' = [op |-> "get_joint_world_position",
                     joint_name |-> joint_name, frame |-> frame]
         /\ After(get_joint_world_position(Self, joint_name, frame))

\* skeleton.get_joint_channel_map()
GetJointChannelMap ==
    /\ pc = "constructed"
    /\ call' = [op |-> "get_joint_channel_map"]
    /\ After(get_joint_channel_map(Self))

\* skeleton.compute_relative_positions()
ComputeRelativePositions ==
    /\ pc = "constructed"
    /\ call' = [op |-> "compute_relative_positions"]
    /\ After(compute_relative_positions(Self))

Next ==
    \/ Construct
    \/ SetNewRoot
    \/ GetJointPosition
    \/ GetJointRotation
    \/ GetJointWorldPosition
    \/ GetJointChannelMap
    \/ ComputeRelativePositions

Spec == SkeletonInit /\ [][Next]_vars

(***************************************************************************)
(* save_to_hdf5 and read_hdf5_file.  A file is a record of its group       *)
(* "hierarchy" (a function from the names of the joint groups to their     *)
(* attributes) and its three datasets.  The name "joint_<i>" of a group is *)
(* the sequence of the decimal digits of i, the prefix being common to all *)
(* of them.                                                                *)
(***************************************************************************)
\* A skeleton of more than ten records: A with the children J1 .. J10.
LongNames == <<"J1", "J2", "J3", "J4", "J5", "J6", "J7", "J8", "J9", "J10">>

RECURSIVE Siblings(_)
Siblings(k) ==
    IF k = 0 THEN <<>>
    ELSE Siblings(k - 1)
         \o JointBlock(Joint(<<LongNames[k]>>), Off(<<k, 10, 0>>), Ch6, <<>>)

HierLong ==
    JointBlock(Root(A), Off(<<0, 0, 0>>), Ch6, Siblings(Len(LongNames)))

\* The documents whose parse is stored: those a Skeleton is built from
\* that declare a joint, and the long one.
StoredDocuments ==
    {d \in Documents : \E i \in 1..Len(d) : d[i].kind = "ROOT"}
    \cup {HierLong \o MotionSection(rows) :
             rows \in Motions(6 * (Len(LongNames) + 1))}

\* The digits of f"{i}"
RECURSIVE Decimal(_)
Decimal(i) == IF i < 10 THEN <<i>> ELSE Decimal(i \div 10) \o <<i % 10>>

\* f"joint_{i}"
GroupName(i) == Decimal(i)

\* np.bytes_(names): the bytes of every name; ch.decode("utf-8") gives the
\* name back.
Bytes(names) == [i \in 1..Len(names) |-> [utf8 |-> names[i]]]
Decode(bs) == [i \in 1..Len(bs) |-> bs[i].utf8]

\* The attribute value "None"
NoneText == <<"None">>

\* The attributes save_to_hdf5 gives the group of a joint.
JointAttrs(joint) ==
    [name |-> joint.name,
     parent |-> IF joint.parent # None THEN joint.parent ELSE NoneText,
     offset |-> IF joint.offset # None THEN joint.offset ELSE <<0, 0, 0>>]

save_to_hdf5(parsed_data) ==
    [written |-> TRUE,
     hierarchy |->
        [key \in {GroupName(i - 1) : i \in 1..Len(parsed_data.hierarchy)} |->
            JointAttrs(parsed_data.hierarchy[
                CHOOSE i \in 1..Len(parsed_data.hierarchy) :
                    GroupName(i - 1) = key])],
     motion_data |-> parsed_data.motion,
     channels |-> Bytes(parsed_data.channels),
     order |-> Bytes(parsed_data.order)]

\* The order of two group names: that of their characters.
NameBefore(a, b) ==
    \E k \in 1..(Len(a) + 1) :
        /\ k <= Len(b)
        /\ \A j \in 1..(k - 1) : a[j] = b[j]
        /\ (k <= Len(a) => a[k] < b[k])

\* Iterating over a group visits its members in the order of their names.
GroupMembers(group) ==
    [r \in 1..Cardinality(DOMAIN group) |->
        CHOOSE key \in DOMAIN group :
            Cardinality({k \in DOMAIN group : NameBefore(k, key)}) = r - 1]

read_hdf5_file(hdf) ==
    LET hierarchy_group == hdf.hierarchy
        names == GroupMembers(hierarchy_group)
    IN [hierarchy |->
           [i \in 1..Len(names) |->
               LET joint_group == hierarchy_group[names[i]]
               IN [name |-> joint_group.name,
                   parent |-> IF joint_group.parent # NoneText
                              THEN joint_group.parent ELSE None,
                   offset |-> joint_group.offset]],
        motion |-> hdf.motion_data,
        channels |-> Decode(hdf.channels),
        order |-> Decode(hdf.order),
        world_motion |-> hdf.motion_data]

StoreInit == ParsedFrom(StoredDocuments)

\* save_to_hdf5(result, path)
SaveToHdf5 ==
    /\ pc = "returned"
    /\ call' = [op |-> "save_to_hdf5"]
    /\ outcome' = "ok"
    /\ ret' = None
    /\ hdf5' = save_to_hdf5(result)
    /\ UNCHANGED <<parserVars, motion, root_joint, joint_channel_map,
                   world_motion>>

\* read_hdf5_file(path)
ReadHdf5File ==
    /\ hdf5 # NoFile
    /\ call' = [op |-> "read_hdf5_file"]
    /\ outcome' = "ok"
    /\ ret' = read_hdf5_file(hdf5)
    /\ UNCHANGED <<parserVars, motion, root_joint, joint_channel_map,
                   world_motion, hdf5>>

StoreNext == SaveToHdf5 \/ ReadHdf5File

StoreSpec == StoreInit /\ [][StoreNext]_vars

(***************************************************************************)
(* Claims about process_bvh_lines, checked under ParserSpec.  A step of    *)
(* ParserSpec that changes the state and leaves line' a line of the input  *)
(* is the loop body run on line'.                                          *)
(***************************************************************************)
HierarchyStep(kinds) ==
    /\ pc = "parsing"
    /\ ~in_motion_section
    /\ line'.kind \in kinds

NamesOf(h) == [i \in 1..Len(h) |-> h[i].name]

\* C1: a ROOT <name> or JOINT <name> line appends exactly one record whose
\* parent is the top of the open-scope stack (None when it is empty), pushes
\* the name and appends it to order; order lists the declared joints in the
\* order of their records in hierarchy.
C1_JointLineAppendsRecord ==
    /\ [][(HierarchyStep({"ROOT", "JOINT"}) /\ line'.name # None) =>
            /\ hierarchy' = Append(hierarchy,
                    [name |-> line'.name,
                     parent |-> IF joint_stack = <<>> THEN None
                                ELSE joint_stack[Len(joint_stack)],
                     offset |-> None])
            /\ joint_stack' = Append(joint_stack, line'.name)
            /\ order' = Append(order, line'.name)
            /\ pc' = "parsing"
            /\ UNCHANGED <<channels, motion_data, in_motion_section>>]_vars
    /\ [](order = SelectSeq(NamesOf(hierarchy),
                            LAMBDA nm : nm[Len(nm)] # "_End"))

C1_Witness ==
    /\ pc = "parsing"
    /\ line.kind = "JOINT"
    /\ Len(hierarchy) = 2
    /\ hierarchy[1].parent = None
    /\ hierarchy[2].parent = hierarchy[1].name
    /\ joint_stack = <<hierarchy[1].name, hierarchy[2].name>>
    /\ order = joint_stack

\* C2 as stated: a CHANNELS n line appends exactly n channel names, whatever
\* the number of name tokens on the line.
C2_AppendsDeclaredCount ==
    [][HierarchyStep({"CHANNELS"}) =>
         Len(channels') = Len(channels) + line'.n]_vars

\* C2 amended: a CHANNELS n line appends every name token that follows n, in
\* order, whatever n says.
C2_AppendsEveryNameToken ==
    [][HierarchyStep({"CHANNELS"}) =>
         /\ channels' = channels \o line'.names
         /\ pc' = "parsing"
         /\ UNCHANGED <<hierarchy, joint_stack, order, motion_data,
                        in_motion_section>>]_vars

C2_Witness ==
    /\ pc = "parsing"
    /\ line.kind = "CHANNELS"
    /\ line.n = 3
    /\ channels = ChBvh
    /\ Len(channels) = 6

\* C3 as stated: whenever process_bvh_lines returns, every motion row has as
\* many values as the returned channel sequence has names.
C3_RowsMatchChannels ==
    pc = "returned" =>
        \A i \in 1..Len(result.motion) :
            Len(result.motion[i]) = Len(result.channels)

\* C3 amended: whenever process_bvh_lines returns, all motion rows have the
\* same number of values; that number need not be the number of channels.
C3_RowsHaveOneLength ==
    pc = "returned" =>
        \A i, j \in 1..Len(result.motion) :
            Len(result.motion[i]) = Len(result.motion[j])

C3_Witness ==
    /\ pc = "returned"
    /\ Len(result.motion) = 2
    /\ Len(result.motion[1]) = 2
    /\ Len(result.channels) = 6
    /\ Len(result.motion[1]) # Len(result.channels)

\* C4: when two motion rows differ in length the call fails with the
\* inconsistent-frame-lengths error and returns nothing; that error is
\* raised only once the input is exhausted, wherever the odd row sits, and
\* taking a row never ends the parse.
C4_InconsistentRowsFail ==
    /\ (line = EndOfInput /\ Cardinality(FrameLengths(motion_data)) > 1) =>
          /\ pc = "failed"
          /\ error = "ValueError: Inconsistent frame lengths"
          /\ result = NoResult
    /\ error = "ValueError: Inconsistent frame lengths" => line = EndOfInput
    /\ line.kind \in {"row", " "} => pc = "parsing"

C4_Witness ==
    /\ pc = "failed"
    /\ line = EndOfInput
    /\ Len(motion_data) = 2
    /\ Len(motion_data[1]) > Len(motion_data[2])
    /\ result = NoResult

\* C5 as stated: a } met while the open-scope stack is empty makes the parse
\* fail.
C5_CloseOnEmptyFails ==
    [][(HierarchyStep({"}"}) /\ joint_stack = <<>>) => pc' = "failed"]_vars

\* C5 amended: a } pops the open-scope stack when it is not empty; met while
\* the stack is empty it is ignored and the parse goes on.
C5_CloseOnEmptyIgnored ==
    [][HierarchyStep({"}"}) =>
         /\ joint_stack # <<>> =>
                joint_stack' = SubSeq(joint_stack, 1, Len(joint_stack) - 1)
         /\ joint_stack = <<>> => joint_stack' = <<>>
         /\ pc' = "parsing"
         /\ error' = NoError
         /\ UNCHANGED <<hierarchy, channels, order, motion_data,
                        in_motion_section>>]_vars

C5_Witness ==
    /\ pc = "parsing"
    /\ line.kind = "}"
    /\ hierarchy = <<>>
    /\ joint_stack = <<>>

\* C6 as stated: a non-empty hierarchy-phase line that starts with none of
\* the recognized tokens makes the parse fail.
Unrecognized == {"HIERARCHY", "row", " ", "Frames:", "Frame Time:"}

C6_UnrecognizedFails ==
    [][HierarchyStep(Unrecognized) => pc' = "failed"]_vars

\* C6 amended: a non-empty hierarchy-phase line that starts with none of the
\* recognized tokens is skipped: no parser state changes and the parse goes
\* on.
C6_UnrecognizedSkipped ==
    [][HierarchyStep(Unrecognized) =>
         /\ pc' = "parsing"
         /\ error' = NoError
         /\ UNCHANGED <<hierarchy, joint_stack, channels, order, motion_data,
                        in_motion_section, result>>]_vars

C6_Witness ==
    /\ pc = "parsing"
    /\ line.kind = "HIERARCHY"
    /\ ~in_motion_section
    /\ hierarchy = <<>>

(***************************************************************************)
(* Claims about Skeleton.set_new_root, checked under Spec.  A step taken   *)
(* from a constructed Skeleton that leaves call' a set_new_root call is    *)
(* that call.                                                              *)
(***************************************************************************)
SetNewRootStep ==
    /\ pc = "constructed"
    /\ call'.op = "set_new_root"

IsJoint(nm) == \E i \in 1..Len(result.hierarchy) : result.hierarchy[i].name = nm

HasPositionChannels(nm) ==
    /\ nm \in DOMAIN joint_channel_map
    /\ \A i \in 1..3 : Axes[i] \in DOMAIN joint_channel_map[nm]

\* The axis (1..3) whose position channel of some joint is column c of the
\* motion table (columns from 1), 0 when c is no position column.
PositionAxis(c) ==
    IF \E nm \in DOMAIN joint_channel_map, i \in 1..3 :
          /\ Axes[i] \in DOMAIN joint_channel_map[nm]
          /\ joint_channel_map[nm][Axes[i]] + 1 = c
    THEN CHOOSE i \in 1..3 :
            \E nm \in DOMAIN joint_channel_map :
               /\ Axes[i] \in DOMAIN joint_channel_map[nm]
               /\ joint_channel_map[nm][Axes[i]] + 1 = c
    ELSE 0

ShiftedBy(X) ==
    /\ Len(motion') = Len(motion)
    /\ \A f \in 1..Len(motion) :
          /\ HasPositionChannels(X)
          /\ Len(motion'[f]) = Len(motion[f])
          /\ \A c \in 1..Len(motion[f]) :
                motion'[f][c] =
                    IF PositionAxis(c) = 0
                    THEN motion[f][c]
                    ELSE motion[f][c]
                         - motion[f][joint_channel_map[X][Axes[PositionAxis(c)]] + 1]
          /\ \A i \in 1..3 :
                motion'[f][joint_channel_map[X][Axes[i]] + 1] = 0
    /\ Len(result'.hierarchy) = Len(result.hierarchy)
    /\ \A i \in 1..Len(result.hierarchy) :
          result'.hierarchy[i].offset = result.hierarchy[i].offset

\* C7 as stated: after set_new_root(X), X any existing joint other than the
\* root, every position channel holds its old value minus X's old position
\* of that frame, X's position is 0 in every frame, and rotation channels
\* and offsets are unchanged.
C7_ShiftForAnyJoint ==
    [][(/\ SetNewRootStep
        /\ call'.new_root # root_joint
        /\ IsJoint(call'.new_root)) => ShiftedBy(call'.new_root)]_vars

\* C7 amended: the same, for X an existing joint other than the root whose
\* name does not contain "_End" (a joint with an entry in the channel index
\* map).
C7_ShiftForChannelJoint ==
    [][(/\ SetNewRootStep
        /\ call'.new_root # root_joint
        /\ IsJoint(call'.new_root)
        /\ ~HasEnd(call'.new_root)) => ShiftedBy(call'.new_root)]_vars

C7_Witness ==
    /\ pc = "constructed"
    /\ call = [op |-> "set_new_root", new_root |-> B]
    /\ outcome = "ok"
    /\ root_joint = B
    /\ Len(motion) = 2
    /\ Len(result.hierarchy) = 4
    /\ motion # result.motion
    /\ \E f \in 1..2 : \E c \in 1..3 : motion[f][c] # 0
    /\ \A f \in 1..2 : \A i \in 1..3 :
          motion[f][joint_channel_map[B][Axes[i]] + 1] = 0

Reparented(R, X) ==
    /\ root_joint' = X
    /\ Len(result'.hierarchy) = Len(result.hierarchy)
    /\ \A i \in 1..Len(result.hierarchy) :
          /\ result'.hierarchy[i].name = result.hierarchy[i].name
          /\ result'.hierarchy[i].parent =
                IF result.hierarchy[i].name = R THEN X
                ELSE IF result.hierarchy[i].name = X THEN None
                ELSE result.hierarchy[i].parent

\* C8 as stated: after set_new_root(X), X any existing joint other than the
\* root R, root_joint is X, R's parent is X, X's parent is None and every
\* other parent is unchanged.
C8_ReparentForAnyJoint ==
    [][(/\ SetNewRootStep
        /\ call'.new_root # root_joint
        /\ IsJoint(call'.new_root))
          => Reparented(root_joint, call'.new_root)]_vars

\* C8 amended: the same, when neither X's name nor R's name contains "_End"
\* (both have an entry in the channel index map).
C8_ReparentForChannelJoints ==
    [][(/\ SetNewRootStep
        /\ call'.new_root # root_joint
        /\ IsJoint(call'.new_root)
        /\ ~HasEnd(call'.new_root)
        /\ ~HasEnd(root_joint))
          => Reparented(root_joint, call'.new_root)]_vars

C8_Witness ==
    /\ pc = "constructed"
    /\ call = [op |-> "set_new_root", new_root |-> C]
    /\ outcome = "ok"
    /\ root_joint = C
    /\ Len(result.hierarchy) = 4
    /\ result.hierarchy[1] = [name |-> A, parent |-> C, offset |-> <<0, 0, 0>>]
    /\ result.hierarchy[2].parent = A
    /\ result.hierarchy[3] = [name |-> C, parent |-> None, offset |-> <<3, 0, 0>>]
    /\ result.hierarchy[4].parent = C

\* C9: set_new_root(r), r the current root, changes neither the hierarchy
\* (parents, offsets) nor the motion table nor root_joint, however often it
\* is called.
C9_SameRootIsNoOp ==
    [][(SetNewRootStep /\ call'.new_root = root_joint) =>
         /\ outcome' = "already the root joint"
         /\ UNCHANGED <<result, motion, root_joint, joint_channel_map>>]_vars

C9_Witness ==
    /\ pc = "constructed"
    /\ call.op = "set_new_root"
    /\ call.new_root = root_joint
    /\ outcome = "already the root joint"
    /\ Len(motion) = 2
    /\ \E c \in 1..3 : motion[1][c] # 0

\* C10: set_new_root(X), X the name of no joint of the hierarchy, ends with
\* the not-found ValueError and changes neither the motion table nor a
\* parent link nor root_joint.
C10_UnknownJointRejected ==
    [][(SetNewRootStep /\ ~IsJoint(call'.new_root)) =>
         /\ outcome' = "ValueError"
         /\ UNCHANGED <<result, motion, root_joint, joint_channel_map>>]_vars

C10_Witness ==
    /\ pc = "constructed"
    /\ call = [op |-> "set_new_root", new_root |-> <<"Z">>]
    /\ outcome = "ValueError"
    /\ Len(motion) = 2
    /\ Len(result.hierarchy) = 3

(***************************************************************************)
(* Claims about the Skeleton as a whole, checked under Spec.  hierarchy is *)
(* the list as process_bvh_lines returned it, result.hierarchy the list    *)
(* the Skeleton works on.                                                  *)
(***************************************************************************)
\* A well-nested parse with a single ROOT: the first record has no parent
\* and every later record's parent is the name of an earlier record.
WellNestedSingleRoot(h) ==
    /\ Len(h) >= 1
    /\ h[1].parent = None
    /\ \A i \in 2..Len(h) :
          /\ h[i].parent # None
          /\ \E j \in 1..(i - 1) : h[j].name = h[i].parent

DistinctNames(h) ==
    \A i, j \in 1..Len(h) : h[i].name = h[j].name => i = j

\* Following the parent links from the joint named nm reaches root within
\* fuel steps.
RECURSIVE ReachesRoot(_, _, _, _)
ReachesRoot(h, nm, root, fuel) ==
    IF nm = root THEN TRUE
    ELSE IF fuel = 0 \/ JointMapIndex(h, nm) = 0 THEN FALSE
    ELSE ReachesRoot(h, h[JointMapIndex(h, nm)].parent, root, fuel - 1)

\* Exactly one record has parent None, it is named root, and the parent
\* links lead from every record to it (a walk of fewer steps than there are
\* records revisits nothing).
IsTreeRootedAt(h, root) ==
    /\ Cardinality({i \in 1..Len(h) : h[i].parent = None}) = 1
    /\ \A i \in 1..Len(h) : h[i].parent = None => h[i].name = root
    /\ \A i \in 1..Len(h) : ReachesRoot(h, h[i].name, root, Len(h) - 1)

\* C11 as stated: a Skeleton built from a well-nested single-ROOT parse has
\* a parent graph that is a tree rooted at root_joint, whatever set_new_root
\* calls were made on it.
C11_TreeForAnyParse ==
    (pc = "constructed" /\ WellNestedSingleRoot(hierarchy))
        => IsTreeRootedAt(result.hierarchy, root_joint)

\* C11 amended: the same, for a parse in which no two records have the same
\* name.
C11_TreeForDistinctNames ==
    (/\ pc = "constructed"
     /\ WellNestedSingleRoot(hierarchy)
     /\ DistinctNames(hierarchy))
        => IsTreeRootedAt(result.hierarchy, root_joint)

C11_Witness ==
    /\ pc = "constructed"
    /\ WellNestedSingleRoot(hierarchy)
    /\ DistinctNames(hierarchy)
    /\ call = [op |-> "set_new_root", new_root |-> C]
    /\ outcome = "ok"
    /\ root_joint = C
    /\ Len(motion) = 1
    /\ Len(result.hierarchy) = 4
    /\ result.hierarchy[1].parent = B
    /\ result.hierarchy[2].parent = C
    /\ result.hierarchy[3].parent = None
    /\ result.hierarchy[4].parent = C

\* C12: the motion array handed to the constructor keeps every value,
\* whatever set_new_root and compute_relative_positions calls are made on
\* the Skeleton, and the constructor itself leaves it alone.
C12_CallerMotionUntouched ==
    [][(pc \in {"returned", "constructed"}) =>
         (result'.motion = result.motion)]_vars

C12_Witness ==
    /\ pc = "constructed"
    /\ call.op = "compute_relative_positions"
    /\ root_joint = B
    /\ Len(motion) = 2
    /\ Len(result.motion) = 2
    /\ motion # result.motion
    /\ result.motion = motion_data

(***************************************************************************)
(* Claims about the accessors, checked under Spec.  A step taken from a    *)
(* constructed Skeleton that leaves call' one of the three accessors is    *)
(* that call.                                                              *)
(***************************************************************************)
Accessors ==
    {"get_joint_position", "get_joint_rotation", "get_joint_world_position"}

AccessorStep ==
    /\ pc = "constructed"
    /\ call'.op \in Accessors

FrameOutOfRange(frame) == frame < 0 \/ frame >= Len(motion)

\* C13 as stated: an accessor called with the name of no joint, or with a
\* frame < 0 or >= frameCount, ends with an error and not with a normal
\* return.
C13_BadQueryRaises ==
    [][(/\ AccessorStep
        /\ \/ ~IsJoint(call'.joint_name)
           \/ FrameOutOfRange(call'.frame)) => outcome' # "ok"]_vars

\* C13 amended: an accessor called with a name that has no entry in the
\* channel index map (an unknown name, an end-site), or with a frame < 0 or
\* >= frameCount, returns None normally and raises nothing.
C13_BadQueryReturnsNone ==
    [][(/\ AccessorStep
        /\ \/ call'.joint_name \notin DOMAIN joint_channel_map
           \/ FrameOutOfRange(call'.frame))
          => (outcome' = "ok" /\ ret' = None)]_vars

C13_Witness ==
    /\ pc = "constructed"
    /\ call = [op |-> "get_joint_position", joint_name |-> A, frame |-> 2]
    /\ Len(motion) = 2
    /\ Len(world_motion) = 2
    /\ A \in DOMAIN joint_channel_map
    /\ outcome = "ok"
    /\ ret = None

\* The slot of the joint named nm in the flat vector of a frame (frames
\* from 0, as the caller counts them): the three values at the place of nm
\* in the order sequence.
OrderIndex(nm) ==
    IF \E k \in 1..Len(result.order) : result.order[k] = nm
    THEN CHOOSE k \in 1..Len(result.order) :
            /\ result.order[k] = nm
            /\ \A j \in 1..(k - 1) : result.order[j] # nm
    ELSE 0

WorldPositionInTable(nm, frame) ==
    SubSeq(world_motion[frame + 1], 3 * OrderIndex(nm) - 2, 3 * OrderIndex(nm))

RotationInTable(nm, frame) ==
    <<motion[frame + 1][joint_channel_map[nm]["Xrotation"] + 1],
      motion[frame + 1][joint_channel_map[nm]["Yrotation"] + 1],
      motion[frame + 1][joint_channel_map[nm]["Zrotation"] + 1]>>

\* C14: for a joint of the channel index map and a frame in range,
\* get_joint_position returns the joint's three world-position components
\* of that frame and get_joint_rotation returns its [Xrotation, Yrotation,
\* Zrotation] values of that frame.
C14_AccessorsReturnValues ==
    [][(/\ pc = "constructed"
        /\ call'.op \in {"get_joint_position", "get_joint_rotation"}
        /\ call'.joint_name \in DOMAIN joint_channel_map
        /\ ~FrameOutOfRange(call'.frame))
          => /\ outcome' = "ok"
             /\ call'.op = "get_joint_position" =>
                   ret' = WorldPositionInTable(call'.joint_name, call'.frame)
             /\ call'.op = "get_joint_rotation" =>
                   ret' = RotationInTable(call'.joint_name, call'.frame)]_vars

\* C15: a call of get_joint_position, get_joint_rotation,
\* get_joint_world_position or get_joint_channel_map, however it ends,
\* leaves the hierarchy, the motion table, the channel index map,
\* root_joint and the world-position table as they were.
C15_QueriesChangeNothing ==
    [][(/\ pc = "constructed"
        /\ call'.op \in Accessors \cup {"get_joint_channel_map"})
          => UNCHANGED <<result, motion, joint_channel_map, root_joint,
                         world_motion>>]_vars

C15_Witness ==
    /\ pc = "constructed"
    /\ call = [op |-> "get_joint_rotation", joint_name |-> B, frame |-> 1]
    /\ outcome = "ok"
    /\ Len(ret) = 3
    /\ \E i \in 1..3 : ret[i] # 0
    /\ ret = RotationInTable(B, 1)
    /\ Len(world_motion) = 2

(***************************************************************************)
(* Claims about forward kinematics, checked under Spec.  world_motion is   *)
(* computed by the constructor, from the hierarchy as parsed (hierarchy)   *)
(* and the motion table as passed (result.motion).                         *)
(***************************************************************************)
Rotations == {"Yrotation", "Xrotation", "Zrotation"}

\* Every rotation channel of frame f (from 1) is zero.
AllRotationsZero(f) ==
    \A nm \in DOMAIN joint_channel_map :
        \A k \in Rotations \cap DOMAIN joint_channel_map[nm] :
            result.motion[f][joint_channel_map[nm][k] + 1] = 0

\* C16: in a frame without rotation, the world position of a joint C whose
\* parent P is not the root is the world position of P plus the offset of C.
C16_ChildIsParentPlusOffset ==
    pc = "constructed" =>
        \A f \in 1..Len(world_motion) :
            AllRotationsZero(f) =>
                \A i, j \in 1..Len(hierarchy) :
                    (/\ hierarchy[j].parent = hierarchy[i].name
                     /\ hierarchy[i].parent # None
                     /\ ~HasEnd(hierarchy[i].name)
                     /\ ~HasEnd(hierarchy[j].name))
                      => \A c \in 1..3 :
                            WorldPositionInTable(hierarchy[j].name, f - 1)[c]
                              = WorldPositionInTable(hierarchy[i].name, f - 1)[c]
                                  + hierarchy[j].offset[c]

\* The position channels of the joint named nm in frame f (from 1) of the
\* motion table the constructor was given.
PositionChannels(nm, f) ==
    [i \in 1..3 |-> result.motion[f][joint_channel_map[nm][Axes[i]] + 1]]

\* C17: in every frame the world position computed for the root is the
\* root's (Xposition, Yposition, Zposition) of that frame, whatever the
\* root's offset and rotation.
C17_RootPositionIsItsChannels ==
    pc = "constructed" =>
        \A f \in 1..Len(world_motion) :
            WorldPositionInTable(hierarchy[1].name, f - 1)
                = PositionChannels(hierarchy[1].name, f)

C17_Witness ==
    /\ pc = "constructed"
    /\ Len(world_motion) = 1
    /\ hierarchy[1].offset = <<4, 0, 6>>
    /\ ~AllRotationsZero(1)
    /\ result.motion[1][joint_channel_map[A]["Zrotation"] + 1] = 90
    /\ SubSeq(world_motion[1], 1, 3) = <<5, 7, 9>>

\* A record an End Site line made: its name is its parent's name followed
\* by "_End".
EndSiteRecord(h, i) == h[i].name = EndSiteName(h[i].parent)

\* The names of the records from the i-th on that no End Site line made.
RECURSIVE DeclaredNames(_, _)
DeclaredNames(h, i) ==
    IF i > Len(h) THEN <<>>
    ELSE IF EndSiteRecord(h, i) THEN DeclaredNames(h, i + 1)
    ELSE <<h[i].name>> \o DeclaredNames(h, i + 1)

\* C18: the vector of every frame has three entries for each joint that is
\* no end-site, the three at the place of the k-th name of the order
\* sequence being the world position of that joint; the parser puts the
\* declared joints, and no end-site, into order.
C18_FlatVectorFollowsOrder ==
    /\ order = DeclaredNames(hierarchy, 1)
    /\ pc = "constructed" =>
          /\ Len(world_motion) = Len(result.motion)
          /\ \A f \in 1..Len(world_motion) :
                /\ Len(world_motion[f]) =
                      3 * Cardinality({i \in 1..Len(hierarchy) :
                                          ~EndSiteRecord(hierarchy, i)})
                /\ \A k \in 1..Len(order) :
                      SubSeq(world_motion[f], 3 * k - 2, 3 * k) =
                          WorldPosition(hierarchy, joint_channel_map,
                                        result.motion, hierarchy[1].name,
                                        order[k], f)

C18_Witness ==
    /\ pc = "constructed"
    /\ Len(hierarchy) = 4
    /\ order = <<A, B, C>>
    /\ EndSiteRecord(hierarchy, 4)
    /\ Len(world_motion) = 2
    /\ Len(world_motion[2]) = 9
    /\ world_motion[2] = <<5, 7, 9, -14, 14, 30, 19, -10, 59>>

(***************************************************************************)
(* Claims about compute_relative_positions and the channel index map,      *)
(* checked under Spec.                                                     *)
(***************************************************************************)
\* C19: compute_relative_positions() on a Skeleton with at least one frame
\* ends normally and leaves, in every frame, the root's position at
\* [0,0,0] and every other joint's position at its old value minus the
\* root's old position of that frame.
C19_RelativeToRoot ==
    [][(/\ pc = "constructed"
        /\ call'.op = "compute_relative_positions"
        /\ Len(motion) >= 1)
          => /\ outcome' = "ok"
             /\ Len(motion') = Len(motion)
             /\ \A f \in 1..Len(motion) :
                   \A nm \in DOMAIN joint_channel_map :
                      \A i \in 1..3 :
                         motion'[f][joint_channel_map[nm][Axes[i]] + 1] =
                            motion[f][joint_channel_map[nm][Axes[i]] + 1]
                            - motion[f][joint_channel_map[root_joint][Axes[i]] + 1]]_vars

\* An end-site as the data model defines it: the name ends with "_End".
EndsWithEnd(nm) == Len(nm) >= 1 /\ nm[Len(nm)] = "_End"

\* C20: the keys of the channel index map built for a parse result are the
\* names of its joints whose name does not end with "_End": a joint whose
\* name has "_End" elsewhere has an entry, an end-site has none.
C20_KeysAreNonEndSites ==
    pc \in {"returned", "constructed", "construct_failed"} =>
        DOMAIN BuildJointChannelMap(order, channels)
            = {hierarchy[i].name : i \in {j \in 1..Len(hierarchy) :
                                            ~EndsWithEnd(hierarchy[j].name)}}

(***************************************************************************)
(* Claims about the constructor, checked under Spec.  A step taken from a  *)
(* returned parse that leaves call' a Skeleton call is Skeleton(result).   *)
(***************************************************************************)
ConstructStep ==
    /\ pc = "returned"
    /\ call'.op = "Skeleton"

\* Some joint of the channel index map built for the parse result r has no
\* column for one of the six channel kinds.
LacksChannelKind(r) ==
    LET jcm == BuildJointChannelMap(r.order, r.channels)
    IN \E nm \in DOMAIN jcm :
          \E k \in 1..Len(Kinds) : Kinds[k] \notin DOMAIN jcm[nm]

\* C21: constructing a Skeleton, forward kinematics included, succeeds for a
\* parse result in which a joint's channel index map lacks some of the six
\* channel kinds (the absent channels counting as 0): no error is raised.
C21_AbsentChannelsAreZero ==
    [][(ConstructStep /\ LacksChannelKind(result) /\ result.hierarchy # <<>>)
          => (pc' = "constructed" /\ outcome' = "ok")]_vars

(***************************************************************************)
(* Claims about the stored file, checked under StoreSpec.                  *)
(***************************************************************************)
\* Every record of the hierarchy h has had its OFFSET line.
OffsetsSet(h) == \A i \in 1..Len(h) : h[i].offset # None

\* C22: what read_hdf5_file returns for the file save_to_hdf5 wrote from a
\* parse result has the records of the result's hierarchy in the same
\* order, each with the same name, parent and offset, and the same motion,
\* channels and order, for any number of joints.  Stated for the results
\* whose records all have an offset: a record without one is written with
\* the offset [0, 0, 0].
C22_RoundTrip ==
    (hdf5 # NoFile /\ call.op = "read_hdf5_file"
                   /\ OffsetsSet(result.hierarchy)) =>
        /\ Len(ret.hierarchy) = Len(result.hierarchy)
        /\ \A i \in 1..Len(result.hierarchy) :
              /\ ret.hierarchy[i].name = result.hierarchy[i].name
              /\ ret.hierarchy[i].parent = result.hierarchy[i].parent
              /\ ret.hierarchy[i].offset = result.hierarchy[i].offset
        /\ ret.motion = result.motion
        /\ ret.channels = result.channels
        /\ ret.order = result.order

(***************************************************************************)
(* Claims about the channel index builder, checked under Spec.             *)
(***************************************************************************)
\* The channel sequence chs declares the six kinds in one common order,
\* once for every name of ord.
CommonDeclaredOrder(ord, chs) ==
    /\ ord # <<>>
    /\ Len(chs) = 6 * Len(ord)
    /\ {chs[p] : p \in 1..6} = {Kinds[k] : k \in 1..Len(Kinds)}
    /\ \A i \in 1..Len(chs) : chs[i] = chs[((i - 1) % 6) + 1]

\* The names of ord are pairwise different and none holds "_End".
PlainNames(ord) ==
    /\ \A i, j \in 1..Len(ord) : ord[i] = ord[j] => i = j
    /\ \A i \in 1..Len(ord) : ~HasEnd(ord[i])

\* C23: when every joint declares all six channels in one common order,
\* whichever permutation, the map built for the parse result gives the k-th
\* joint of order (k from 0) all six kinds, each at column 6k + its place in
\* the declared order.  Stated for joints of different names without "_End".
C23_DeclaredOrderGoverns ==
    (/\ pc \in {"returned", "constructed", "construct_failed"}
     /\ CommonDeclaredOrder(order, channels)
     /\ PlainNames(order))
      => LET jcm == BuildJointChannelMap(order, channels)
         IN \A k \in 1..Len(order) :
               /\ order[k] \in DOMAIN jcm
               /\ \A p \in 1..6 :
                     /\ channels[p] \in DOMAIN jcm[order[k]]
                     /\ jcm[order[k]][channels[p]] = 6 * (k - 1) + (p - 1)

MotionStep ==
    /\ pc = "parsing"
    /\ in_motion_section
    /\ line'.kind \notin {"", "EOF"}

\* C25 as stated: after MOTION the parser stays in the motion phase, and
\* every non-empty line is a Frames: or Frame Time: header, skipped whatever
\* count it declares, or adds exactly one row at the end of the motion
\* table; hierarchy, channels and order do not change any more.
C25_MotionLinesAddRows ==
    /\ [][in_motion_section =>
            (in_motion_section' /\ UNCHANGED <<hierarchy, channels, order>>)]_vars
    /\ [][MotionStep =>
            /\ pc' = "parsing"
            /\ IF line'.kind \in {"Frames:", "Frame Time:"}
               THEN UNCHANGED motion_data
               ELSE /\ Len(motion_data') = Len(motion_data) + 1
                    /\ SubSeq(motion_data', 1, Len(motion_data))
                          = motion_data]_vars

\* C25 amended: as above, but a line that is neither a header nor made of
\* numbers only ends the parse with ValueError, without a result and
\* without a row added; a line of white space adds an empty row.
C25_MotionLinesAddRowsOrFail ==
    /\ [][in_motion_section =>
            (in_motion_section' /\ UNCHANGED <<hierarchy, channels, order>>)]_vars
    /\ [][MotionStep =>
            CASE line'.kind \in {"Frames:", "Frame Time:"} ->
                    /\ pc' = "parsing"
                    /\ UNCHANGED motion_data
              [] line'.kind = "row" ->
                    /\ pc' = "parsing"
                    /\ motion_data' = Append(motion_data, line'.vals)
              [] line'.kind = " " ->
                    /\ pc' = "parsing"
                    /\ motion_data' = Append(motion_data, <<>>)
              [] OTHER ->
                    /\ pc' = "failed"
                    /\ error' = "ValueError: could not convert string to float"
                    /\ result' = NoResult
                    /\ UNCHANGED motion_data]_vars
    /\ [](pc = "failed" => result = NoResult)

C25_Witness ==
    /\ pc = "parsing"
    /\ in_motion_section
    /\ line.kind = "Frames:"
    /\ line.n = 1
    /\ Len(motion_data) = 2
    /\ hierarchy # <<>>

\* C26: an OFFSET line sets the offset of the record appended last, joint or
\* end-site, and changes nothing else; met while no record exists, it ends
\* the parse with an error and without a result.
C26_OffsetSetsLastRecord ==
    /\ [][(HierarchyStep({"OFFSET"}) /\ hierarchy # <<>>) =>
            /\ Len(hierarchy') = Len(hierarchy)
            /\ \A i \in 1..Len(hierarchy) :
                  hierarchy'[i] =
                      IF i = Len(hierarchy)
                      THEN [hierarchy[i] EXCEPT !.offset = line'.vals]
                      ELSE hierarchy[i]
            /\ pc' = "parsing"
            /\ UNCHANGED <<joint_stack, order, channels, motion_data,
                           in_motion_section>>]_vars
    /\ [][(HierarchyStep({"OFFSET"}) /\ hierarchy = <<>>) =>
            /\ pc' = "failed"
            /\ error' = "IndexError"
            /\ result' = NoResult
            /\ UNCHANGED <<hierarchy, joint_stack, order, channels,
                           motion_data>>]_vars
    /\ [][pc = "failed" => (pc' = "failed" /\ result' = NoResult)]_vars

C26_Witness ==
    /\ pc = "parsing"
    /\ line.kind = "OFFSET"
    /\ Len(hierarchy) = 2
    /\ hierarchy[1].offset = None
    /\ hierarchy[2].offset = line.vals
    /\ joint_stack = <<hierarchy[1].name>>

(***************************************************************************)
(* Further claims about forward kinematics, checked under Spec.            *)
(***************************************************************************)
\* How often the local transform of the joint named nm is evaluated in one
\* frame of the constructor's forward kinematics.
EvaluationsOf(nm) ==
    LET evals == FrameEvaluations(hierarchy, 1)
    IN Cardinality({k \in 1..Len(evals) : evals[k] = nm})

\* C27 as stated: within one frame every joint's transform is computed at
\* most once, so a frame takes at most as many local-transform evaluations
\* as there are joints.
C27_TransformComputedOnce ==
    (pc = "constructed" /\ Len(world_motion) >= 1) =>
        /\ \A i \in 1..Len(hierarchy) : EvaluationsOf(hierarchy[i].name) <= 1
        /\ Len(FrameEvaluations(hierarchy, 1)) <= Len(hierarchy)

\* C27 amended: nothing is kept between the calls; the local transform of a
\* joint is evaluated once for every record without "_End" that is the
\* joint or below it, so a frame takes as many evaluations as the depths of
\* those records add up to.
C27_TransformComputedPerDescendant ==
    (pc = "constructed" /\ Len(world_motion) >= 1) =>
        \A i \in 1..Len(hierarchy) :
            ~HasEnd(hierarchy[i].name) =>
                EvaluationsOf(hierarchy[i].name) =
                    Cardinality({j \in 1..Len(hierarchy) :
                        /\ ~HasEnd(hierarchy[j].name)
                        /\ ReachesRoot(hierarchy, hierarchy[j].name,
                                       hierarchy[i].name, Len(hierarchy))})

C27_Witness ==
    /\ pc = "constructed"
    /\ Len(world_motion) = 2
    /\ order = <<A, B, C>>
    /\ hierarchy[3].parent = B
    /\ EvaluationsOf(A) = 3
    /\ EvaluationsOf(B) = 2
    /\ Len(FrameEvaluations(hierarchy, 1)) = 6

\* C28: after a set_new_root(X) that went through, the world-position table
\* is what forward kinematics gives for the motion table and the parent
\* links as they are now, with X as the root.
C28_KinematicsFollowRoot ==
    [][(/\ SetNewRootStep
        /\ outcome' = "ok"
        /\ Len(motion) >= 1
        /\ WorldSkeletonError(result'.hierarchy, root_joint', result.order,
                              motion') = NoError)
          => world_motion' =
                ComputeWorldSkeletonForFrames(result'.hierarchy,
                                              joint_channel_map, motion',
                                              root_joint', result.order)]_vars

(***************************************************************************)
(* Claims about the caller's parse result, checked under Spec.             *)
(***************************************************************************)
\* C29: constructing a Skeleton from a parse result and calling
\* set_new_root on it leaves the hierarchy of the parse result as the
\* parser returned it, every record with the parent it had, so that its
\* first record is still a root without parent.
C29_CallerHierarchyUntouched ==
    /\ [][(ConstructStep \/ SetNewRootStep) =>
             result'.hierarchy = result.hierarchy]_vars
    /\ [](pc = "constructed" =>
             /\ result.hierarchy = hierarchy
             /\ result.hierarchy[1].parent = None)

====
